---- MODULE Spec2Model ----
(***************************************************************************)
(* WeightTracker: a two-user weight-tracking dashboard (Streamlit page     *)
(* re-executed on every interaction, Firebase Realtime Database behind).   *)
(*                                                                         *)
(* The model covers                                                        *)
(*   - the login page and its login-attempt throttle (src/main.py),        *)
(*   - the identity directory "users" (src/main.py),                       *)
(*   - the record store "weights/<user>" (src/database.py, src/models.py), *)
(*   - the input form and the record editor (src/components.py),           *)
(*   - the chart construction (src/visualization.py).                      *)
(*                                                                         *)
(* Time is counted in minutes.  Weights and meal times are counted in      *)
(* tenths (70.5 kg is 705, 1.0 h is 10).                                   *)
(***************************************************************************)
EXTENDS Integers, Sequences, FiniteSets, TLC

VARIABLES
    now,             \* the wall clock, datetime.now(), in minutes
    users,           \* db.reference("users"): identity -> entry, or None
    ss,              \* st.session_state of each browser session
    login_attempts,  \* st.session_state["login_attempts"] of each session
    ui,              \* widget state of each session: window and checkbox
    weights,         \* db.reference("weights/<user>"): id -> stored dict
    nextId,          \* number of keys minted by ref.push() so far
    pending,         \* an editor submission between its read and its write
    ev,              \* what the last page execution did and rendered
    viz,             \* the arguments a WeightVisualizer is constructed with
    chart,           \* the figure its create_graph() returned
    fit,             \* the arguments _predict_future() is called with
    forecast,        \* the dates and predictions it returned
    rec,             \* a WeightRecord handed to to_dict()
    trip,            \* its dict, and the dict of the record read back
    reg              \* a register_user() call between its read and its write

vars == <<now, users, ss, login_attempts, ui, weights, nextId, pending, ev,
          viz, chart, fit, forecast, rec, trip, reg>>
appVars == <<now, users, ss, login_attempts, ui, weights, nextId, pending, ev>>
chartVars == <<viz, chart>>
sideVars == <<fit, forecast, rec, trip, reg>>

\* Python's None, for a field that otherwise holds a string, a point in
\* time, a directory entry, an error message or an editor submission.
None == "None"
NoTime == -1
NoUser == [registered |-> FALSE]
NoError == [kind |-> "none", left |-> 0]
NoPending == [op |-> "none"]

\* ---------------------------------------------------------------- bounds
MaxTime == 16          \* the clock stops advancing here
TickMinutes == 5       \* the clock advances in steps of this many minutes
MaxRecords == 2        \* keys that ref.push() mints in one run of the model

\* ------------------------------------------------------- configuration
Users == {"u1", "u2"}             \* st.secrets["app"]["user_type"]
User1 == "u1"
User2 == "u2"
Sessions == {1, 2}                \* browser sessions
Passwords == {"p1", "p2"}         \* what can be typed in the password field
RegPasswords == {"p1"}            \* the passwords identities register with
Salts == {"s1"}                   \* values of uuid.uuid4().hex

MAX_ATTEMPTS == 3
LOCK_TIME_MINUTES == 15
TIMEOUT_MINUTES == 2

\* ---------------------------------------------------------- main.py, auth

\* hashlib.sha256((password + salt).encode()).hexdigest(): the digest is
\* modelled as the pair it is computed from (no collisions).
hash_password(password, salt) == <<password, salt>>

verify_user(dir, user_id) == dir[user_id]

\* authenticate(): TRUE iff the identity is registered and the hash matches.
authenticate(dir, user_id, password) ==
    LET user_info == verify_user(dir, user_id) IN
    /\ user_info # NoUser
    /\ user_info.password = hash_password(password, user_info.salt)

ref_set_keeps_children(node, value) ==
    [u \in DOMAIN node |-> IF node[u] # NoUser THEN node[u] ELSE value[u]]

\* ref.set(value) on the "users" node: the node becomes value, whatever it
\* held.
ref_set(node, value) == value

\* register_user(), the part that builds the directory to write back.
register_user(dir, user_id, password, salt, t) ==
    [dir EXCEPT ![user_id] =
        [password |-> hash_password(password, salt),
         salt |-> salt,
         registered_at |-> t]]

\* ------------------------------------------------- main.py, session guard

NoAttempts == [count |-> 0, locked_until |-> NoTime]

\* A variant that never reports a lock.
is_account_locked_always_open(att, user_id, t) == FALSE

\* is_account_locked(): locked_until is set and still in the future.

is_account_locked(att, user_id, t) ==
    LET attempts == att[user_id] IN
    /\ attempts.locked_until # NoTime
    /\ t < attempts.locked_until

\* A variant that locks one failure late (count > MAX_ATTEMPTS).
increment_login_attempts_late_lock(att, user_id, t) ==
    LET count == att[user_id].count + 1 IN
    [att EXCEPT ![user_id] =
        [count |-> count,
         locked_until |-> IF count > MAX_ATTEMPTS
                          THEN t + LOCK_TIME_MINUTES
                          ELSE att[user_id].locked_until]]

\* increment_login_attempts(): count += 1, and the lock from MAX_ATTEMPTS on.
increment_login_attempts(att, user_id, t) ==
    LET count == att[user_id].count + 1 IN
    [att EXCEPT ![user_id] =
        [count |-> count,
         locked_until |-> IF count >= MAX_ATTEMPTS
                          THEN t + LOCK_TIME_MINUTES
                          ELSE att[user_id].locked_until]]

reset_login_attempts(att, user_id) == [att EXCEPT ![user_id] = NoAttempts]

\* The message login_page() stores in login_error after a failed login:
\* the lock message, or the number of attempts left.
login_error_after_failure(att, user_id) ==
    IF att[user_id].locked_until # NoTime
    THEN [kind |-> "locked", left |-> 0]
    ELSE [kind |-> "wrong", left |-> 3 - att[user_id].count]

\* ------------------------------------------------ main.py, session timeout

InitSession ==
    [logged_in |-> FALSE, user_type |-> None, last_activity |-> NoTime,
     show_timeout_warning |-> FALSE, login_error |-> NoError]

\* check_session_timeout() decides to log the session out.
TimedOut(sess, t) ==
    /\ sess.logged_in
    /\ sess.last_activity # NoTime
    /\ t - sess.last_activity > TIMEOUT_MINUTES

AfterTimeout_keeps_user(sess) ==
    [sess EXCEPT !.logged_in = FALSE, !.last_activity = NoTime,
                 !.show_timeout_warning = FALSE]

\* The session after check_session_timeout() has logged it out and the
\* rerun has drawn the login page, which shows the warning and clears it.
AfterTimeout(sess) ==
    [sess EXCEPT !.logged_in = FALSE, !.user_type = None,
                 !.last_activity = NoTime, !.show_timeout_warning = FALSE]

\* The session after check_session_timeout() has let the run go on.
Touch(sess, t) == [sess EXCEPT !.last_activity = t]

\* ------------------------------------------------------------- models.py

\* A datetime: a calendar day, a time of day (0 is 00:00:00, 1 is the time
\* of day of the clock, 2 is 23:59:59), whether microseconds are non-zero,
\* and whether it carries tzinfo (ZoneInfo("Asia/Tokyo")).
Today == 1
Days == 0..Today
Midnight(day, aware) == [day |-> day, tod |-> 0, us |-> 0, aware |-> aware]
EndOfDay(day, aware) == [day |-> day, tod |-> 2, us |-> 1, aware |-> aware]
NowTokyo == [day |-> Today, tod |-> 1, us |-> 1, aware |-> TRUE]
NowNaive == [day |-> Today, tod |-> 1, us |-> 1, aware |-> FALSE]

\* Python raises TypeError when an offset-naive and an offset-aware
\* datetime are ordered or subtracted.
Comparable(a, b) == a.aware = b.aware

\* a <= b, defined for comparable datetimes.
Le(a, b) ==
    \/ a.day < b.day
    \/ a.day = b.day /\ a.tod < b.tod
    \/ a.day = b.day /\ a.tod = b.tod /\ a.us <= b.us

\* datetime.isoformat(): date, time, microseconds when they are not zero,
\* and the UTC offset, which is absent for a naive datetime.
isoformat(ts) ==
    [day |-> ts.day, tod |-> ts.tod, us |-> ts.us,
     offset |-> IF ts.aware THEN "+09:00" ELSE ""]

\* datetime.fromisoformat()
fromisoformat(str) ==
    [day |-> str.day, tod |-> str.tod, us |-> str.us,
     aware |-> str.offset # ""]

TIME_AFTER_MEAL_OPTIONS == {5, 10, 15, 20, 25, 30, 35}

\* WeightRecord(weight, timestamp, time_after_meal, edited=False)
WeightRecord(weight, timestamp, time_after_meal, edited) ==
    [weight |-> weight, timestamp |-> timestamp,
     time_after_meal |-> time_after_meal, edited |-> edited]

\* WeightRecord.to_dict()
to_dict(r) ==
    [weight |-> r.weight,
     timestamp |-> isoformat([r.timestamp EXCEPT !.us = 0]),
     time_after_meal |-> r.time_after_meal,
     edited |-> r.edited]

from_dict_never_edited(id, data) ==
    [id |-> id,
     weight |-> data.weight,
     timestamp |-> fromisoformat(data.timestamp),
     time_after_meal |-> data.time_after_meal,
     edited |-> FALSE]

\* WeightRecord.from_dict(), with the id get_records() sets on it.
from_dict(id, data) ==
    [id |-> id,
     weight |-> data.weight,
     timestamp |-> fromisoformat(data.timestamp),
     time_after_meal |-> data.time_after_meal,
     edited |-> data.edited]

\* ----------------------------------------------------------- database.py

Ids == 1..MaxRecords                  \* keys minted by ref.push(), in order

\* A "weights/<user>" node is a function from the keys of its children to
\* the stored dicts.
EmptyNode == << >>
IdsOf(node) == DOMAIN node

\* The children of a node in key order, as ref.get() returns them, each
\* turned into a WeightRecord by from_dict().
RECURSIVE ReadAll(_, _)
ReadAll(node, ids) ==
    IF ids = {} THEN <<>>
    ELSE LET id == CHOOSE x \in ids : \A y \in ids : x <= y
         IN <<from_dict(id, node[id])>> \o ReadAll(node, ids \ {id})

\* sorted(result, key=lambda x: x.timestamp) compares the timestamps of the
\* list with each other: it raises TypeError when two of them are not
\* comparable.
SortRaises(recs) ==
    \E i, j \in 1..Len(recs) : ~Comparable(recs[i].timestamp, recs[j].timestamp)

\* Insert r behind every element that is not later than it (stable).
RECURSIVE InsertSorted(_, _)
InsertSorted(sorted, r) ==
    IF sorted = <<>> THEN <<r>>
    ELSE IF Le(sorted[Len(sorted)].timestamp, r.timestamp)
         THEN Append(sorted, r)
         ELSE Append(InsertSorted(SubSeq(sorted, 1, Len(sorted) - 1), r),
                     sorted[Len(sorted)])

RECURSIVE SortByTimestamp(_)
SortByTimestamp(recs) ==
    IF recs = <<>> THEN <<>>
    ELSE InsertSorted(SortByTimestamp(SubSeq(recs, 1, Len(recs) - 1)),
                      recs[Len(recs)])

\* WeightDatabase.get_records() without a period: every record of the user
\* sorted by timestamp, or [] when an exception was caught.
get_records(node) ==
    LET result == ReadAll(node, IdsOf(node)) IN
    IF SortRaises(result) THEN <<>> ELSE SortByTimestamp(result)

\* WeightDatabase.add_record(): self.ref.push().set(record.to_dict())
add_record(node, id, weight, time_after_meal, timestamp) ==
    [k \in DOMAIN node \cup {id} |->
        IF k = id
        THEN to_dict(WeightRecord(weight, timestamp, time_after_meal, FALSE))
        ELSE node[k]]

\* WeightDatabase.update_record(): self.ref.child(record_id).set(...) writes
\* the child whether or not it exists.
update_record(node, record_id, weight, time_after_meal, timestamp) ==
    [k \in DOMAIN node \cup {record_id} |->
        IF k = record_id
        THEN to_dict(WeightRecord(weight, timestamp, time_after_meal, TRUE))
        ELSE node[k]]

\* WeightDatabase.delete_record(): self.ref.child(record_id).delete()
delete_record(node, record_id) ==
    [k \in DOMAIN node \ {record_id} |-> node[k]]

\* --------------------------------------------------------- components.py

WeightInputs == {0, 705, 710}     \* values of the number_input, min_value 0.0
TamInputs == {10}                 \* the option picked in the selectbox

\* WeightInputForm.render(): the timestamp of a submitted record.
InputFormTimestamp(input_date) ==
    IF input_date = Today THEN NowTokyo ELSE Midnight(input_date, TRUE)

\* WeightInputForm.render(): the condition under which add_record is called.
InputFormAccepts(weight) == weight > 0

\* WeightRecordEditor.render(): datetime.combine(new_date, datetime.min.time())
EditorTimestamp(new_date) == Midnight(new_date, FALSE)

\* DateRangeSelector.render(): the bounds of the display window.
WindowStart(start_date) == Midnight(start_date, TRUE)
WindowEnd(end_date) == EndOfDay(end_date, TRUE)

\* -------------------------------------------------------- visualization.py

HORIZON == 30          \* _predict_future(..., days=30)
MIN_POINTS == 5        \* _predict_future: if len(X) < 5

\* start_date <= r.timestamp <= end_date raises TypeError for a timestamp
\* that cannot be compared with the bound it is compared with.
WindowTestRaises(ts, start_date, end_date) ==
    \/ ~Comparable(start_date, ts)
    \/ Le(start_date, ts) /\ ~Comparable(ts, end_date)

InWindow(ts, start_date, end_date) == Le(start_date, ts) /\ Le(ts, end_date)

FilterRaises(records, start_date, end_date) ==
    \E i \in 1..Len(records) :
        WindowTestRaises(records[i].timestamp, start_date, end_date)

\* [r for r in records if start_date <= r.timestamp <= end_date]
FilterWindow(records, start_date, end_date) ==
    LET Test(r) == InWindow(r.timestamp, start_date, end_date)
    IN SelectSeq(records, Test)

\* _prepare_data() subtracts datetime.now(), which is naive, from every
\* timestamp, and every timestamp from its successor.
PrepareRaises(records) ==
    \E i \in 1..Len(records) :
        \/ ~Comparable(records[i].timestamp, NowNaive)
        \/ i > 1 /\ ~Comparable(records[i].timestamp, records[i - 1].timestamp)

\* _predict_future(X, y, days=30): nothing below 5 training rows, else one
\* point per day for days 1..days from datetime.now().  The regressor's
\* output is opaque.  The clock does not move during a call.
FutureDate(day) == [NowNaive EXCEPT !.day = Today + day]

predict_future_six_rows(n, days) ==
    IF n <= MIN_POINTS
    THEN [dates |-> <<>>, predictions |-> <<>>]
    ELSE [dates |-> [day \in 1..days |-> FutureDate(day)],
          predictions |-> [day \in 1..days |-> "pred"]]

predict_future(n, days) ==
    IF n < MIN_POINTS
    THEN [dates |-> <<>>, predictions |-> <<>>]
    ELSE [dates |-> [day \in 1..days |-> FutureDate(day)],
          predictions |-> [day \in 1..days |-> "pred"]]

ChartError == [error |-> TRUE, series |-> <<>>]
ChartOf(series) == [error |-> FALSE, series |-> series]

ActualSeries(user, color, display) ==
    [user |-> user, kind |-> "actual", color |-> color, dash |-> "solid",
     x |-> [i \in 1..Len(display) |-> display[i].timestamp],
     y |-> [i \in 1..Len(display) |-> display[i].weight]]

ForecastSeries(user, color, last_record, pred) ==
    [user |-> user, kind |-> "forecast", color |-> color, dash |-> "dot",
     x |-> <<last_record.timestamp>> \o pred.dates,
     y |-> <<last_record.weight>> \o pred.predictions]

\* A variant that draws the forecast outside the branch of the actual
\* series, anchored at the last record of the history when the window is
\* empty.
UserTraces_forecast_without_display(user, color, records, display, show_prediction) ==
    LET actual == IF display = <<>> THEN <<>>
                  ELSE <<ActualSeries(user, color, display)>>
        anchor == IF display = <<>> THEN records[Len(records)]
                  ELSE display[Len(display)]
    IN IF show_prediction /\ records # <<>>
       THEN IF PrepareRaises(records) THEN ChartError
            ELSE LET pred == predict_future(Len(records), HORIZON) IN
                 IF pred.predictions # <<>>
                 THEN ChartOf(actual \o <<ForecastSeries(user, color, anchor, pred)>>)
                 ELSE ChartOf(actual)
       ELSE ChartOf(actual)

\* create_graph(), the block of one user: the actual series when the window
\* holds a record and, inside that branch only, the forecast series.
UserTraces(user, color, records, display, show_prediction) ==
    IF display = <<>> THEN ChartOf(<<>>)
    ELSE LET actual == ActualSeries(user, color, display) IN
         IF show_prediction /\ records # <<>>
         THEN IF PrepareRaises(records) THEN ChartError
              ELSE LET pred == predict_future(Len(records), HORIZON) IN
                   IF pred.predictions # <<>>
                   THEN ChartOf(<<actual,
                                  ForecastSeries(user, color,
                                                 display[Len(display)], pred)>>)
                   ELSE ChartOf(<<actual>>)
         ELSE ChartOf(<<actual>>)

\* WeightVisualizer(records1, records2, start_date, end_date,
\* show_prediction).create_graph(): the list of traces of the figure, or an
\* exception that no caller catches.
create_graph(records1, records2, start_date, end_date, show_prediction) ==
    IF \/ FilterRaises(records1, start_date, end_date)
       \/ FilterRaises(records2, start_date, end_date)
    THEN ChartError
    ELSE LET t1 == UserTraces(User1, "blue", records1,
                       FilterWindow(records1, start_date, end_date),
                       show_prediction)
             t2 == UserTraces(User2, "red", records2,
                       FilterWindow(records2, start_date, end_date),
                       show_prediction)
         IN IF t1.error \/ t2.error THEN ChartError
            ELSE ChartOf(t1.series \o t2.series)

\* ------------------------------------------------------ main.py, main()

\* The chart main() builds for a logged-in session from both users' records
\* and the session's window and checkbox.
MainChart(w, u) ==
    create_graph(get_records(w[User1]), get_records(w[User2]),
                 WindowStart(u.start), WindowEnd(u.end), u.show_prediction)

\* What a run of main() for a logged-in session ends with: the main page,
\* or the exception raised while the chart is built.
MainPage(w, u) == IF MainChart(w, u).error THEN "crash" ELSE "main"

\* current_records: the records of the logged-in user inside the window,
\* read through db1 for the first configured identity and through db2
\* otherwise.
CurrentRecords(w, u, user_type) ==
    FilterWindow(get_records(IF user_type = User1 THEN w[User1]
                             ELSE w[User2]),
                 WindowStart(u.start), WindowEnd(u.end))

CurrentDb_first_user(sess) == User1

\* db and current_db: WeightDatabase(st.session_state["user_type"]), the
\* node "weights/<user_type>" the input form and the editor write to.
CurrentDb(sess) == sess.user_type

Event(op, s, u, res, page) ==
    [op |-> op, s |-> s, u |-> u, res |-> res, page |-> page,
     password |-> None, id |-> 0, weight |-> 0]

\* ------------------------------------------------------------ the state

NoVisualizer == [constructed |-> FALSE]
NoChart == [drawn |-> FALSE, error |-> FALSE, series |-> <<>>]
NoFit == [called |-> FALSE]
NoForecast == [done |-> FALSE, dates |-> <<>>, predictions |-> <<>>]
NoRecord == [given |-> FALSE]
NoTrip == [done |-> FALSE]
NoReg == [stage |-> "none"]

\* Nothing is under way outside the page.
SideIdle ==
    /\ fit = NoFit
    /\ forecast = NoForecast
    /\ rec = NoRecord
    /\ trip = NoTrip
    /\ reg = [s \in Sessions |-> NoReg]

Init ==
    /\ now = 0
    /\ users = [u \in Users |-> NoUser]
    /\ ss = [s \in Sessions |-> InitSession]
    /\ login_attempts = [s \in Sessions |-> [u \in Users |-> NoAttempts]]
    /\ ui = [s \in Sessions |->
                [start |-> 0, end |-> Today, show_prediction |-> FALSE]]
    /\ weights = [u \in Users |-> EmptyNode]
    /\ nextId = 0
    /\ pending = [s \in Sessions |-> NoPending]
    /\ ev = Event("init", 0, None, None, "login")
    /\ viz = NoVisualizer
    /\ chart = NoChart
    /\ SideIdle

\* Time passes.
Tick ==
    /\ now < MaxTime
    /\ now' = now + TickMinutes
    /\ ev' = Event("tick", 0, None, None, ev.page)
    /\ UNCHANGED <<users, ss, login_attempts, ui, weights, nextId, pending>>
    /\ UNCHANGED <<chartVars, sideVars>>

\* ------------------------------------------------ main.py, login_page()

\* A run of main() that draws the login page with the login form submitted
\* for user_id.  The submit button is drawn disabled while the identity is
\* locked, and then the handler below it does not run.
LoginSubmit(s, user_id, password) ==
    /\ ~ss[s].logged_in
    /\ pending[s] = NoPending
    /\ UNCHANGED <<chartVars, sideVars>>
    /\ IF is_account_locked(login_attempts[s], user_id, now)
       THEN /\ ev' = [Event("login", s, user_id, "refused", "login")
                          EXCEPT !.password = password]
            /\ UNCHANGED <<ss, login_attempts>>
       ELSE IF authenticate(users, user_id, password)
       THEN /\ ss' = [ss EXCEPT ![s] =
                        [@ EXCEPT !.user_type = user_id, !.logged_in = TRUE,
                                  !.login_error = NoError,
                                  !.last_activity = now]]
            /\ login_attempts' = [login_attempts EXCEPT ![s] =
                                    reset_login_attempts(@, user_id)]
            /\ ev' = [Event("login", s, user_id, "ok", MainPage(weights, ui[s]))
                          EXCEPT !.password = password]
       ELSE LET att == increment_login_attempts(login_attempts[s], user_id, now)
            IN /\ login_attempts' = [login_attempts EXCEPT ![s] = att]
               /\ ss' = [ss EXCEPT ![s].login_error =
                            login_error_after_failure(att, user_id)]
               /\ ev' = [Event("login", s, user_id, "failed", "login")
                             EXCEPT !.password = password]
    /\ UNCHANGED <<now, users, ui, weights, nextId, pending>>

\* A run of main() that draws the login page with the registration button
\* pressed for user_id; the button is enabled while verify_user() finds no
\* entry.  ok is whether the store accepts the write.
RegisterSubmit(s, user_id, password, salt, ok) ==
    /\ ~ss[s].logged_in
    /\ pending[s] = NoPending
    /\ UNCHANGED <<chartVars, sideVars>>
    /\ verify_user(users, user_id) = NoUser
    /\ IF ok
       THEN /\ users' = ref_set(users, register_user(users, user_id, password,
                                                     salt, now))
            /\ ss' = [ss EXCEPT ![s] =
                        [@ EXCEPT !.logged_in = TRUE, !.user_type = user_id,
                                  !.login_error = NoError,
                                  !.last_activity = now]]
            /\ ev' = [Event("register", s, user_id, "ok",
                            MainPage(weights, ui[s]))
                          EXCEPT !.password = password]
       ELSE /\ ev' = [Event("register", s, user_id, "failed", "login")
                          EXCEPT !.password = password]
            /\ UNCHANGED <<users, ss>>
    /\ UNCHANGED <<now, login_attempts, ui, weights, nextId, pending>>

\* The login page when registrations of two sessions overlap: the run of
\* main() that handles the register button is split at the call of
\* ref.set(), between the reading of the directory and its writing.

RegSalts == {"s1", "s2"}          \* values of uuid.uuid4().hex, never reused

\* The login page as session s sees it: the identity in the selectbox and
\* whether the register button was drawn enabled.
LoginPageOf(dir, user_id) ==
    [stage |-> "page", user_id |-> user_id,
     enabled |-> verify_user(dir, user_id) = NoUser]

\* Another identity is chosen in the selectbox: the page is drawn again.
SelectUser(s, user_id) ==
    /\ ~ss[s].logged_in
    /\ reg[s].stage = "page"
    /\ reg' = [reg EXCEPT ![s] = LoginPageOf(users, user_id)]
    /\ ev' = Event("select_user", s, user_id, "none", "login")
    /\ UNCHANGED <<now, users, ss, login_attempts, ui, weights, nextId,
                   pending>>
    /\ UNCHANGED <<chartVars, fit, forecast, rec, trip>>

\* The register button is pressed: register_user() reads the directory and
\* returns False when the identity is in it; otherwise the call goes on
\* with the directory it has read.
RegisterRead(s, password) ==
    /\ ~ss[s].logged_in
    /\ reg[s].stage = "page"
    /\ reg[s].enabled
    /\ LET user_id == reg[s].user_id IN
       IF verify_user(users, user_id) # NoUser
       THEN /\ reg' = [reg EXCEPT ![s] = LoginPageOf(users, user_id)]
            /\ ev' = [Event("register", s, user_id, "exists", "login")
                          EXCEPT !.password = password]
       ELSE /\ reg' = [reg EXCEPT ![s] =
                         [stage |-> "read", user_id |-> user_id,
                          password |-> password, users |-> users]]
            /\ ev' = [Event("register_read", s, user_id, "read", "login")
                          EXCEPT !.password = password]
    /\ UNCHANGED <<now, users, ss, login_attempts, ui, weights, nextId,
                   pending>>
    /\ UNCHANGED <<chartVars, fit, forecast, rec, trip>>

\* The rest of the call: the entry is put into the directory that was read
\* and ref.set() writes that directory.  ok is whether the store accepts the
\* write; when it does the call returns True and the session is logged in.
RegisterWrite(s, salt, ok) ==
    /\ reg[s].stage = "read"
    /\ \A u \in Users :
          IF users[u] = NoUser THEN TRUE ELSE users[u].salt # salt
    /\ LET user_id == reg[s].user_id
           written == register_user(reg[s].users, user_id, reg[s].password,
                                    salt, now)
       IN IF ok
          THEN /\ users' = ref_set(users, written)
               /\ ss' = [ss EXCEPT ![s] =
                           [@ EXCEPT !.logged_in = TRUE,
                                     !.user_type = user_id,
                                     !.login_error = NoError,
                                     !.last_activity = now]]
               /\ reg' = [reg EXCEPT ![s] =
                            [stage |-> "done", user_id |-> user_id,
                             entry |-> written[user_id]]]
               /\ ev' = [Event("register", s, user_id, "ok",
                               MainPage(weights, ui[s]))
                             EXCEPT !.password = reg[s].password]
          ELSE /\ reg' = [reg EXCEPT ![s] =
                            [stage |-> "page", user_id |-> user_id,
                             enabled |-> TRUE]]
               /\ ev' = [Event("register", s, user_id, "failed", "login")
                             EXCEPT !.password = reg[s].password]
               /\ UNCHANGED <<users, ss>>
    /\ UNCHANGED <<now, login_attempts, ui, weights, nextId, pending>>
    /\ UNCHANGED <<chartVars, fit, forecast, rec, trip>>

\* ------------------------------------------------- main.py, the main page

\* check_session_timeout() logs the session out and the rerun draws the
\* login page; the handler of the widget that started the run never runs.
TimeoutStep(s, op) ==
    /\ ss' = [ss EXCEPT ![s] = AfterTimeout(@)]
    /\ ev' = Event(op, s, ss[s].user_type, "timeout", "login")
    /\ UNCHANGED <<now, users, login_attempts, ui, weights, nextId, pending>>

\* The logout button, drawn after the chart and the editor.
Logout(s) ==
    /\ ss[s].logged_in
    /\ pending[s] = NoPending
    /\ UNCHANGED <<chartVars, sideVars>>
    /\ IF TimedOut(ss[s], now) THEN TimeoutStep(s, "logout")
       ELSE /\ IF MainPage(weights, ui[s]) = "crash"
               THEN /\ ss' = [ss EXCEPT ![s] = Touch(@, now)]
                    /\ ev' = Event("logout", s, ss[s].user_type, "none", "crash")
               ELSE /\ ss' = [ss EXCEPT ![s] =
                                [@ EXCEPT !.logged_in = FALSE,
                                          !.user_type = None,
                                          !.last_activity = NoTime]]
                    /\ ev' = Event("logout", s, ss[s].user_type, "ok", "login")
            /\ UNCHANGED <<now, users, login_attempts, ui, weights, nextId,
                           pending>>

\* The forecast checkbox in the sidebar.
ToggleForecast(s) ==
    /\ ss[s].logged_in
    /\ pending[s] = NoPending
    /\ UNCHANGED <<chartVars, sideVars>>
    /\ IF TimedOut(ss[s], now) THEN TimeoutStep(s, "toggle")
       ELSE LET u == [ui[s] EXCEPT !.show_prediction = ~@] IN
            /\ ui' = [ui EXCEPT ![s] = u]
            /\ ss' = [ss EXCEPT ![s] = Touch(@, now)]
            /\ ev' = Event("toggle", s, ss[s].user_type, "ok",
                           MainPage(weights, u))
            /\ UNCHANGED <<now, users, login_attempts, weights, nextId,
                           pending>>

\* DateRangeSelector.render(): the two date inputs; the end date is not
\* before the start date and not after today.
SelectWindow(s, start_date, end_date) ==
    /\ ss[s].logged_in
    /\ pending[s] = NoPending
    /\ UNCHANGED <<chartVars, sideVars>>
    /\ start_date <= end_date
    /\ IF TimedOut(ss[s], now) THEN TimeoutStep(s, "window")
       ELSE LET u == [ui[s] EXCEPT !.start = start_date, !.end = end_date] IN
            /\ ui' = [ui EXCEPT ![s] = u]
            /\ ss' = [ss EXCEPT ![s] = Touch(@, now)]
            /\ ev' = Event("window", s, ss[s].user_type, "ok",
                           MainPage(weights, u))
            /\ UNCHANGED <<now, users, login_attempts, weights, nextId,
                           pending>>

\* --------------------------------- components.py, WeightInputForm.render()

\* The input form in the sidebar is submitted with a date, a weight and a
\* meal time.  add_record runs only for a weight above 0; ok is whether the
\* store accepts the write.  After a successful write the page is rerun.
AddSubmit(s, input_date, weight, time_after_meal, ok) ==
    /\ ss[s].logged_in
    /\ pending[s] = NoPending
    /\ UNCHANGED <<chartVars, sideVars>>
    /\ IF TimedOut(ss[s], now) THEN TimeoutStep(s, "add")
       ELSE /\ ss' = [ss EXCEPT ![s] = Touch(@, now)]
            /\ IF InputFormAccepts(weight)
               THEN /\ nextId < MaxRecords
                    /\ IF ok
                       THEN /\ weights' = [weights EXCEPT ![CurrentDb(ss[s])] =
                                   add_record(@, nextId + 1, weight,
                                              time_after_meal,
                                              InputFormTimestamp(input_date))]
                            /\ nextId' = nextId + 1
                            /\ ev' = [Event("add", s, ss[s].user_type, "added",
                                            MainPage(weights', ui[s]))
                                        EXCEPT !.id = nextId + 1,
                                               !.weight = weight]
                       ELSE /\ ev' = [Event("add", s, ss[s].user_type, "failed",
                                            MainPage(weights, ui[s]))
                                        EXCEPT !.weight = weight]
                            /\ UNCHANGED <<weights, nextId>>
               ELSE /\ ev' = [Event("add", s, ss[s].user_type, "rejected",
                                    MainPage(weights, ui[s]))
                                EXCEPT !.weight = weight]
                    /\ UNCHANGED <<weights, nextId>>
            /\ UNCHANGED <<now, users, login_attempts, ui, pending>>

\* ------------------------------ components.py, WeightRecordEditor.render()

\* A run of main() with a button of the i-th edit form pressed, up to the
\* call of the store: the run reads the records, builds the chart (an
\* exception there ends the run before the editor is drawn) and takes the
\* i-th record of the logged-in user inside the window.
EditBegin(s, i, op, new_date, new_weight, new_time) ==
    /\ ss[s].logged_in
    /\ pending[s] = NoPending
    /\ UNCHANGED <<chartVars, sideVars>>
    /\ IF TimedOut(ss[s], now) THEN TimeoutStep(s, "edit_begin")
       ELSE /\ ss' = [ss EXCEPT ![s] = Touch(@, now)]
            /\ IF MainPage(weights, ui[s]) = "crash"
               THEN /\ ev' = Event("edit_begin", s, ss[s].user_type, "none",
                                   "crash")
                    /\ UNCHANGED pending
               ELSE LET records == CurrentRecords(weights, ui[s],
                                                  ss[s].user_type)
                    IN /\ i <= Len(records)
                       /\ pending' = [pending EXCEPT ![s] =
                              [op |-> op, id |-> records[i].id,
                               weight |-> new_weight,
                               time_after_meal |-> new_time,
                               timestamp |-> EditorTimestamp(new_date)]]
                       /\ ev' = [Event("edit_begin", s, ss[s].user_type, op,
                                       "main")
                                   EXCEPT !.id = records[i].id,
                                          !.weight = new_weight]
            /\ UNCHANGED <<now, users, login_attempts, ui, weights, nextId>>

\* The same run from the call of the store on: update_record or
\* delete_record on the id taken by EditBegin, then the rerun of the page,
\* which starts with check_session_timeout().  ok is whether the store
\* accepts the write; when it does not the run goes on without a rerun.
EditCommit(s, ok) ==
    /\ pending[s] # NoPending
    /\ UNCHANGED <<chartVars, sideVars>>
    /\ LET p == pending[s]
           user_type == ss[s].user_type
           w == IF ~ok THEN weights
                ELSE [weights EXCEPT ![CurrentDb(ss[s])] =
                        IF p.op = "update"
                        THEN update_record(@, p.id, p.weight,
                                           p.time_after_meal, p.timestamp)
                        ELSE delete_record(@, p.id)]
       IN /\ weights' = w
          /\ IF ok /\ TimedOut(ss[s], now)
             THEN /\ ss' = [ss EXCEPT ![s] = AfterTimeout(@)]
                  /\ ev' = [Event("edit_commit", s, user_type, p.op, "login")
                              EXCEPT !.id = p.id, !.weight = p.weight]
             ELSE /\ ss' = [ss EXCEPT ![s] = Touch(@, now)]
                  /\ ev' = [Event("edit_commit", s, user_type,
                                  IF ok THEN p.op ELSE "failed",
                                  MainPage(w, ui[s]))
                              EXCEPT !.id = p.id, !.weight = p.weight]
    /\ pending' = [pending EXCEPT ![s] = NoPending]
    /\ UNCHANGED <<now, users, login_attempts, ui, nextId>>

\* ------------------------------------------------------ specifications

GuardSessions == {1}

\* The login page, the session guard and the session timeout of one
\* session, from the state after construction.  On the main page the
\* session reruns the page with the window left as it is, or logs out.
Next ==
    \/ Tick
    \/ \E s \in GuardSessions, u \in Users, pw \in Passwords :
          LoginSubmit(s, u, pw)
    \/ \E s \in GuardSessions, u \in Users, pw \in RegPasswords,
          salt \in Salts, ok \in BOOLEAN : RegisterSubmit(s, u, pw, salt, ok)
    \/ \E s \in GuardSessions : Logout(s)
    \/ \E s \in GuardSessions : SelectWindow(s, ui[s].start, ui[s].end)

Spec == Init /\ [][Next]_vars

RegisteredEntry ==
    [password |-> hash_password("p1", "s1"), salt |-> "s1",
     registered_at |-> 0]

LoggedIn(user_type) ==
    [InitSession EXCEPT !.logged_in = TRUE, !.user_type = user_type,
                        !.last_activity = 0]

\* One session on the main page: both identities are registered and
\* session 1 is logged in as one of them.
StoreSessions == {1}

InitStore ==
    /\ now = 0
    /\ users = [u \in Users |-> RegisteredEntry]
    /\ \E u1 \in Users :
          ss = [s \in Sessions |->
                  IF s \in StoreSessions THEN LoggedIn(u1) ELSE InitSession]
    /\ login_attempts = [s \in Sessions |-> [u \in Users |-> NoAttempts]]
    /\ ui = [s \in Sessions |->
                [start |-> 0, end |-> Today, show_prediction |-> FALSE]]
    /\ weights = [u \in Users |-> EmptyNode]
    /\ nextId = 0
    /\ pending = [s \in Sessions |-> NoPending]
    /\ ev = Event("init", 0, None, None, "main")
    /\ viz = NoVisualizer
    /\ chart = NoChart
    /\ SideIdle

NextStore ==
    \/ \E s \in StoreSessions, d \in Days, w \in WeightInputs,
          t \in TamInputs, ok \in BOOLEAN : AddSubmit(s, d, w, t, ok)
    \/ \E s \in StoreSessions, i \in Ids, op \in {"update", "delete"},
          d \in Days, w \in WeightInputs, t \in TamInputs :
          EditBegin(s, i, op, d, w, t)
    \/ \E s \in StoreSessions, ok \in BOOLEAN : EditCommit(s, ok)
    \/ \E s \in StoreSessions : ToggleForecast(s)
    \/ \E s \in StoreSessions, a \in Days, b \in Days : SelectWindow(s, a, b)

SpecStore == InitStore /\ [][NextStore]_vars

\* Two sessions on the main page, both logged in as the first identity,
\* with the window and the checkbox left as they are.
InitShared ==
    /\ now = 0
    /\ users = [u \in Users |-> RegisteredEntry]
    /\ ss = [s \in Sessions |-> LoggedIn(User1)]
    /\ login_attempts = [s \in Sessions |-> [u \in Users |-> NoAttempts]]
    /\ ui = [s \in Sessions |->
                [start |-> 0, end |-> Today, show_prediction |-> FALSE]]
    /\ weights = [u \in Users |-> EmptyNode]
    /\ nextId = 0
    /\ pending = [s \in Sessions |-> NoPending]
    /\ ev = Event("init", 0, None, None, "main")
    /\ viz = NoVisualizer
    /\ chart = NoChart
    /\ SideIdle

NextShared ==
    \/ \E s \in Sessions, w \in WeightInputs, ok \in BOOLEAN :
          AddSubmit(s, Today, w, 10, ok)
    \/ \E s \in Sessions, i \in Ids, op \in {"update", "delete"},
          w \in WeightInputs : EditBegin(s, i, op, Today, w, 10)
    \/ \E s \in Sessions, ok \in BOOLEAN : EditCommit(s, ok)

SpecShared == InitShared /\ [][NextShared]_vars

\* The chart construction on its own: a WeightVisualizer is constructed
\* with two histories, a window and the forecast flag, and create_graph()
\* is called on it once.
MaxHist == 5           \* the longest history a visualizer is given

\* A history of n records on the n days up to day last, one a day.
History(n, last, aware) ==
    [i \in 1..n |->
        [id |-> i, weight |-> 700 + i,
         timestamp |-> Midnight(last + i - n, aware),
         time_after_meal |-> 10, edited |-> FALSE]]

ChartDays == (0 - MaxHist)..Today

InitChart ==
    /\ now = 0
    /\ users = [u \in Users |-> NoUser]
    /\ ss = [s \in Sessions |-> InitSession]
    /\ login_attempts = [s \in Sessions |-> [u \in Users |-> NoAttempts]]
    /\ ui = [s \in Sessions |->
                [start |-> 0, end |-> Today, show_prediction |-> FALSE]]
    /\ weights = [u \in Users |-> EmptyNode]
    /\ nextId = 0
    /\ pending = [s \in Sessions |-> NoPending]
    /\ ev = Event("init", 0, None, None, "login")
    /\ \E n1 \in 0..MaxHist, n2 \in 0..MaxHist, last1 \in Days,
          last2 \in Days, aware1 \in BOOLEAN, aware2 \in BOOLEAN,
          a \in ChartDays, b \in ChartDays, awareW \in BOOLEAN,
          show \in BOOLEAN :
          /\ a <= b
          /\ viz = [constructed |-> TRUE,
                    records1 |-> History(n1, last1, aware1),
                    records2 |-> History(n2, last2, aware2),
                    start_date |-> Midnight(a, awareW),
                    end_date |-> EndOfDay(b, awareW),
                    show_prediction |-> show]
    /\ chart = NoChart
    /\ SideIdle

CreateGraph ==
    /\ ~chart.drawn
    /\ LET fig == create_graph(viz.records1, viz.records2, viz.start_date,
                               viz.end_date, viz.show_prediction)
       IN chart' = [drawn |-> TRUE, error |-> fig.error, series |-> fig.series]
    /\ UNCHANGED viz
    /\ UNCHANGED <<appVars, sideVars>>

NextChart == CreateGraph

SpecChart == InitChart /\ [][NextChart]_vars

\* The forecast on its own: _predict_future() is called once with a
\* training set of n rows and a number of days.
InitForecast ==
    /\ now = 0
    /\ users = [u \in Users |-> NoUser]
    /\ ss = [s \in Sessions |-> InitSession]
    /\ login_attempts = [s \in Sessions |-> [u \in Users |-> NoAttempts]]
    /\ ui = [s \in Sessions |->
                [start |-> 0, end |-> Today, show_prediction |-> FALSE]]
    /\ weights = [u \in Users |-> EmptyNode]
    /\ nextId = 0
    /\ pending = [s \in Sessions |-> NoPending]
    /\ ev = Event("init", 0, None, None, "login")
    /\ viz = NoVisualizer
    /\ chart = NoChart
    /\ \E n \in 0..(MaxHist + 1), days \in 0..HORIZON :
          fit = [called |-> TRUE, n |-> n, days |-> days]
    /\ forecast = NoForecast
    /\ rec = NoRecord
    /\ trip = NoTrip
    /\ reg = [s \in Sessions |-> NoReg]

PredictFuture ==
    /\ fit.called
    /\ ~forecast.done
    /\ LET pred == predict_future(fit.n, fit.days)
       IN forecast' = [done |-> TRUE, dates |-> pred.dates,
                       predictions |-> pred.predictions]
    /\ UNCHANGED <<fit, rec, trip, reg>>
    /\ UNCHANGED <<appVars, chartVars>>

NextForecast == PredictFuture

SpecForecast == InitForecast /\ [][NextForecast]_vars

\* Serialization on its own: a record is turned into its dict, the dict is
\* read back into a record, and that record is turned into its dict again.
RecordWeights == {705, 710}
TimesOfDay == 0..2
Microseconds == {0, 1}

InitRoundTrip ==
    /\ now = 0
    /\ users = [u \in Users |-> NoUser]
    /\ ss = [s \in Sessions |-> InitSession]
    /\ login_attempts = [s \in Sessions |-> [u \in Users |-> NoAttempts]]
    /\ ui = [s \in Sessions |->
                [start |-> 0, end |-> Today, show_prediction |-> FALSE]]
    /\ weights = [u \in Users |-> EmptyNode]
    /\ nextId = 0
    /\ pending = [s \in Sessions |-> NoPending]
    /\ ev = Event("init", 0, None, None, "login")
    /\ viz = NoVisualizer
    /\ chart = NoChart
    /\ fit = NoFit
    /\ forecast = NoForecast
    /\ \E weight \in RecordWeights, day \in Days, tod \in TimesOfDay,
          us \in Microseconds, aware \in BOOLEAN,
          time_after_meal \in TIME_AFTER_MEAL_OPTIONS, edited \in BOOLEAN :
          rec = [given |-> TRUE,
                 r |-> WeightRecord(weight,
                                    [day |-> day, tod |-> tod, us |-> us,
                                     aware |-> aware],
                                    time_after_meal, edited)]
    /\ trip = NoTrip
    /\ reg = [s \in Sessions |-> NoReg]

RoundTrip ==
    /\ rec.given
    /\ ~trip.done
    /\ LET first == to_dict(rec.r)
           back == from_dict(1, first)
       IN trip' = [done |-> TRUE, first |-> first, back |-> back,
                   second |-> to_dict(back)]
    /\ UNCHANGED <<fit, forecast, rec, reg>>
    /\ UNCHANGED <<appVars, chartVars>>

NextRoundTrip == RoundTrip

SpecRoundTrip == InitRoundTrip /\ [][NextRoundTrip]_vars

\* The store under two sessions of different identities: session 1 is
\* logged in as the first identity and session 2 as the second.
InitPair ==
    /\ now = 0
    /\ users = [u \in Users |-> RegisteredEntry]
    /\ ss = [s \in Sessions |-> IF s = 1 THEN LoggedIn(User1)
                                ELSE LoggedIn(User2)]
    /\ login_attempts = [s \in Sessions |-> [u \in Users |-> NoAttempts]]
    /\ ui = [s \in Sessions |->
                [start |-> 0, end |-> Today, show_prediction |-> FALSE]]
    /\ weights = [u \in Users |-> EmptyNode]
    /\ nextId = 0
    /\ pending = [s \in Sessions |-> NoPending]
    /\ ev = Event("init", 0, None, None, "main")
    /\ viz = NoVisualizer
    /\ chart = NoChart
    /\ SideIdle

SpecPair == InitPair /\ [][NextShared]_vars

\* Registration under two sessions, both on the login page of a fresh
\* installation with the first identity in the selectbox.
InitReg ==
    /\ now = 0
    /\ users = [u \in Users |-> NoUser]
    /\ ss = [s \in Sessions |-> InitSession]
    /\ login_attempts = [s \in Sessions |-> [u \in Users |-> NoAttempts]]
    /\ ui = [s \in Sessions |->
                [start |-> 0, end |-> Today, show_prediction |-> FALSE]]
    /\ weights = [u \in Users |-> EmptyNode]
    /\ nextId = 0
    /\ pending = [s \in Sessions |-> NoPending]
    /\ ev = Event("init", 0, None, None, "login")
    /\ viz = NoVisualizer
    /\ chart = NoChart
    /\ fit = NoFit
    /\ forecast = NoForecast
    /\ rec = NoRecord
    /\ trip = NoTrip
    /\ reg = [s \in Sessions |-> LoginPageOf(users, User1)]

NextReg ==
    \/ Tick
    \/ \E s \in Sessions, u \in Users : SelectUser(s, u)
    \/ \E s \in Sessions, pw \in Passwords : RegisterRead(s, pw)
    \/ \E s \in Sessions, salt \in RegSalts, ok \in BOOLEAN :
          RegisterWrite(s, salt, ok)

SpecReg == InitReg /\ [][NextReg]_vars

\* ================================================================ claims

\* A login handler has run in session s for identity u in this step.
LoginStep(s, u) ==
    /\ now' = now
    /\ ev'.op = "login"
    /\ ev'.s = s
    /\ ev'.u = u

\* C1 (as claimed): a login attempt for an identity whose lockout has
\* expired (locked_until set, now >= locked_until) is handled from count 0
\* with locked_until unset, so one failure leaves count = 1 and no lock.
C1_ExpiryResetsCount ==
    [][\A s \in Sessions, u \in Users :
          (/\ LoginStep(s, u)
           /\ ev'.res = "failed"
           /\ login_attempts[s][u].locked_until # NoTime
           /\ now >= login_attempts[s][u].locked_until)
          => login_attempts'[s][u] = [count |-> 1, locked_until |-> NoTime]
      ]_vars

\* C2: for an identity with locked_until unset the count is below 3; a
\* failed login adds one to the count, leaves locked_until unset while the
\* new count is below 3 and sets it to now + 15 minutes when the new count
\* reaches 3; a successful login puts the count back to 0.
C2_LockTransition ==
    [][\A s \in Sessions, u \in Users :
          (LoginStep(s, u) /\ login_attempts[s][u].locked_until = NoTime)
          => LET before == login_attempts[s][u]
                 after == login_attempts'[s][u]
             IN /\ before.count < 3
                /\ ev'.res \in {"failed", "ok"}
                /\ ev'.res = "failed" =>
                      /\ after.count = before.count + 1
                      /\ after.count < 3 => after.locked_until = NoTime
                      /\ after.count >= 3 => after.locked_until = now + 15
                /\ ev'.res = "ok" =>
                      after = [count |-> 0, locked_until |-> NoTime]
      ]_vars

\* C2 witness: the third consecutive failure has just locked an identity
\* for 15 minutes.
C2_Witness ==
    /\ ev.op = "login"
    /\ ev.res = "failed"
    /\ login_attempts[ev.s][ev.u] = [count |-> 3, locked_until |-> now + 15]

\* C3: a login attempt for an identity that is locked (locked_until set and
\* now < locked_until) is refused whatever the password, leaves the session
\* logged out and leaves the identity's count and locked_until as they were.
C3_LockedRefused ==
    [][\A s \in Sessions, u \in Users :
          (/\ LoginStep(s, u)
           /\ login_attempts[s][u].locked_until # NoTime
           /\ now < login_attempts[s][u].locked_until)
          => /\ ev'.res = "refused"
             /\ ~ss'[s].logged_in
             /\ login_attempts'[s][u] = login_attempts[s][u]
      ]_vars

\* C3 witness: an attempt with the registered password has just been
\* refused for a locked identity.
C3_Witness ==
    /\ ev.op = "login"
    /\ ev.res = "refused"
    /\ users[ev.u] # NoUser
    /\ users[ev.u].password = <<ev.password, users[ev.u].salt>>
    /\ login_attempts[ev.s][ev.u].locked_until # NoTime
    /\ now < login_attempts[ev.s][ev.u].locked_until
    /\ ~ss[ev.s].logged_in

\* C4 (as claimed): a session never becomes logged in as an identity whose
\* locked_until in that session is set and in the future.
C4_LoginOnlyThroughGuard ==
    [][\A s \in Sessions :
          (~ss[s].logged_in /\ ss'[s].logged_in)
          => LET att == login_attempts'[s][ss'[s].user_type]
             IN ~(att.locked_until # NoTime /\ now' < att.locked_until)
      ]_vars

\* C5 (as claimed): every record in the store has weight > 0, after any
\* submissions of the input form and of the edit forms.
C5_StoredWeightsPositive ==
    \A u \in Users : \A id \in DOMAIN weights[u] : weights[u][id].weight > 0

\* C6 (as claimed): every record in the store has a timezone-aware
\* timestamp, serialized with its UTC offset.
C6_StoredTimestampsAware ==
    \A u \in Users : \A id \in DOMAIN weights[u] :
        /\ weights[u][id].timestamp.offset = "+09:00"
        /\ Comparable(fromisoformat(weights[u][id].timestamp), WindowStart(0))

\* C7 (as claimed): every page execution ends with the login page or the
\* main page rendered.
C7_RenderNeverAborts == ev.page \in {"login", "main"}

\* A handler of session s has run in this step.
HandlerStep(op, res) ==
    /\ now' = now
    /\ ev'.op = op
    /\ ev'.res = res

\* get_records() returns the stored record id of user u with the edited
\* flag and the weight it is stored with.
Returned(u, id) ==
    LET records == get_records(weights[u]) IN
    \E i \in 1..Len(records) :
        /\ records[i].id = id
        /\ records[i].edited = weights[u][id].edited
        /\ records[i].weight = weights[u][id].weight

\* C8 (as claimed): get_records returns every record of the store; a record
\* comes from add_record under a fresh id with edited = false; an
\* update_record leaves it with edited = true and the weight of the update;
\* edited never goes from true back to false while the record exists.
C8_EditedLifecycle ==
    /\ [](\A u \in Users : \A id \in DOMAIN weights[u] : Returned(u, id))
    /\ [][/\ HandlerStep("add", "added") =>
                /\ \A u \in Users : ev'.id \notin DOMAIN weights[u]
                /\ ~weights'[ev'.u][ev'.id].edited
          /\ (HandlerStep("edit_commit", "update")
                /\ ev'.id \in DOMAIN weights[ev'.u]) =>
                /\ weights'[ev'.u][ev'.id].edited
                /\ weights'[ev'.u][ev'.id].weight = ev'.weight
          /\ \A u \in Users :
                \A id \in DOMAIN weights[u] \cap DOMAIN weights'[u] :
                    weights[u][id].edited => weights'[u][id].edited
         ]_vars

\* C9 (as claimed): a record id starts to exist only in an add_record that
\* mints it; update_record never makes a record exist, so a deleted id
\* never exists again.
C9_OnlyAddCreates ==
    [][\A u \in Users : \A id \in Ids :
          (id \notin DOMAIN weights[u] /\ id \in DOMAIN weights'[u])
          => /\ HandlerStep("add", "added")
             /\ ev'.id = id
             /\ id > nextId
      ]_vars

\* The window of the visualizer excludes the timestamp of every record of
\* the history (which can all be compared with its bounds).
WindowExcludesAll(records) ==
    \A i \in 1..Len(records) :
        /\ ~WindowTestRaises(records[i].timestamp, viz.start_date, viz.end_date)
        /\ ~InWindow(records[i].timestamp, viz.start_date, viz.end_date)

HasSeries(user, kind) ==
    \E i \in 1..Len(chart.series) :
        chart.series[i].user = user /\ chart.series[i].kind = kind

\* The case of C10: the forecast is enabled, the window excludes all of
\* user 1's records and user 1's history has at least 5 records.
C10_Case ==
    /\ chart.drawn
    /\ viz.show_prediction
    /\ Len(viz.records1) >= 5
    /\ WindowExcludesAll(viz.records1)

\* C10 (as claimed): in that case the chart still contains user 1's
\* forecast series, and no actual series of user 1.
C10_ForecastWithoutActual ==
    C10_Case => /\ ~chart.error
                /\ HasSeries(User1, "forecast")
                /\ ~HasSeries(User1, "actual")

\* C10 (amended): in that case the chart contains no series of user 1,
\* neither the actual one nor the forecast.
C10_NoSeriesWithoutActual ==
    C10_Case => /\ ~HasSeries(User1, "forecast")
                /\ ~HasSeries(User1, "actual")

\* C10 witness: such a chart, drawn without error, in which user 2 has a
\* forecast series.
C10_Witness ==
    /\ C10_Case
    /\ ~chart.error
    /\ HasSeries(User2, "forecast")

\* The records of a history that lie in the window of the visualizer, both
\* ends included, in the order of the history.
InWindowRecords(records) ==
    LET Test(r) ==
            /\ ~WindowTestRaises(r.timestamp, viz.start_date, viz.end_date)
            /\ InWindow(r.timestamp, viz.start_date, viz.end_date)
    IN SelectSeq(records, Test)

SeriesOf(user) ==
    LET Test(t) == t.user = user IN SelectSeq(chart.series, Test)

\* With the forecast disabled the chart holds, for the history of a user,
\* one actual series made of the in-window records when there is one, and
\* no series otherwise.
ActualSeriesExact(user, records) ==
    LET inside == InWindowRecords(records)
        drawn == SeriesOf(user)
    IN IF inside = <<>> THEN drawn = <<>>
       ELSE /\ Len(drawn) = 1
            /\ drawn[1].kind = "actual"
            /\ drawn[1].x = [i \in 1..Len(inside) |-> inside[i].timestamp]
            /\ drawn[1].y = [i \in 1..Len(inside) |-> inside[i].weight]

\* C11 (as claimed): with the forecast disabled, for any two histories and
\* any window, the chart contains exactly one actual series, labelled with
\* the user, for each user with a record inside the window, made of exactly
\* the in-window records in history order, and no series for a user
\* without one.
C11_ActualSeriesPerUser ==
    (chart.drawn /\ ~viz.show_prediction)
    => /\ ~chart.error
       /\ ActualSeriesExact(User1, viz.records1)
       /\ ActualSeriesExact(User2, viz.records2)

\* The same for the charts whose histories can all be compared with the
\* bounds of the window.
C11_Comparable ==
    (/\ chart.drawn /\ ~viz.show_prediction
     /\ ~FilterRaises(viz.records1, viz.start_date, viz.end_date)
     /\ ~FilterRaises(viz.records2, viz.start_date, viz.end_date))
    => /\ ~chart.error
       /\ ActualSeriesExact(User1, viz.records1)
       /\ ActualSeriesExact(User2, viz.records2)

\* t1 is strictly before t2, for two timestamps that can be compared.
Before(t1, t2) == Comparable(t1, t2) /\ Le(t1, t2) /\ t1 # t2

C13_RoundTrip ==
    trip.done
    => /\ trip.second = trip.first
       /\ trip.back.weight = rec.r.weight
       /\ trip.back.time_after_meal = rec.r.time_after_meal
       /\ trip.back.edited = rec.r.edited
       /\ trip.back.timestamp = [rec.r.timestamp EXCEPT !.us = 0]

\* An edited record with an offset and with microseconds went through.
C13_Witness ==
    /\ trip.done
    /\ rec.r.edited
    /\ rec.r.timestamp.aware
    /\ rec.r.timestamp.us # 0
    /\ trip.second = trip.first

\* A run of the main page in session s: an interaction of a session that is
\* logged in.
MainPageStep(s) ==
    /\ now' = now
    /\ ss[s].logged_in
    /\ ev'.s = s

\* C14 (as claimed): on each interaction of a logged-in session,
\* check_session_timeout logs the session out (logged_in false, user_type
\* and last_activity cleared, the run ends with the timeout) exactly when
\* there has been no interaction for 30 minutes or more; after a shorter
\* gap the session stays logged in, unless the interaction is the logout
\* button, and last_activity is the current time.
C14_TimeoutAtThirtyMinutes ==
    [][\A s \in Sessions :
        MainPageStep(s)
        => LET idle == now - ss[s].last_activity IN
           /\ (ev'.res = "timeout") <=> (idle >= 30)
           /\ ev'.res = "timeout"
              => /\ ~ss'[s].logged_in
                 /\ ss'[s].user_type = None
                 /\ ss'[s].last_activity = NoTime
           /\ (idle < 30 /\ ev'.op # "logout")
              => /\ ss'[s].logged_in
                 /\ ss'[s].last_activity = now]_vars

\* C15: every add, update and delete issued from a session logged in as an
\* identity changes only the records stored under that identity's key: the
\* set and the contents of the other identity's records are unchanged by
\* every step of the session.
C15_OnlyOwnRecordsChange ==
    [][\A s \in Sessions :
        (now' = now /\ ev'.s = s /\ ss[s].logged_in)
        => \A other \in Users \ {ss[s].user_type} :
              weights'[other] = weights[other]]_vars

\* The first identity has updated or deleted a record of its own while the
\* second identity holds a record.
C15_Witness ==
    /\ ev.op = "edit_commit"
    /\ ev.res \in {"update", "delete"}
    /\ ev.u = User1
    /\ weights[User2] # EmptyNode

\* Session s ends a register_user() call whose check has passed and whose
\* write the store has accepted.
RegisterWriteStep(s) ==
    /\ reg[s].stage = "read"
    /\ reg'[s].stage # "read"
    /\ ev'.res # "failed"

\* C16: register_user reads the whole directory, checks that the identity is
\* absent and writes the whole directory back without atomicity: a call
\* whose check has passed returns success and leaves its own password hash
\* and salt under the identity whatever the directory holds by then, so
\* that of two sessions registering the same identity concurrently both
\* succeed and the later write replaces the hash and salt of the earlier.
C16_CheckedWriteReplaces ==
    [][\A s \in Sessions :
        RegisterWriteStep(s)
        => LET user_id == reg[s].user_id IN
           /\ ev'.res = "ok"
           /\ ss'[s].logged_in
           /\ ss'[s].user_type = user_id
           /\ reg'[s].stage = "done"
           /\ reg'[s].entry.password =
                 hash_password(reg[s].password, reg'[s].entry.salt)
           /\ users'[user_id] = reg'[s].entry]_vars

\* Both sessions have registered the same identity with success, and the
\* directory holds the hash and salt of the later one, session 2, which
\* differ from those session 1 had stored.
C16_Witness ==
    /\ reg[1].stage = "done"
    /\ reg[2].stage = "done"
    /\ reg[1].user_id = reg[2].user_id
    /\ ss[1].logged_in
    /\ ss[2].logged_in
    /\ ev.op = "register"
    /\ ev.s = 2
    /\ ev.res = "ok"
    /\ users[reg[2].user_id] = reg[2].entry
    /\ reg[1].entry.password # reg[2].entry.password
    /\ reg[1].entry.salt # reg[2].entry.salt

\* C17 (as claimed): once register_user has returned success for an
\* identity, its entry (password hash, salt, registered_at) is still present
\* and unchanged after every register_user call for the other identity
\* completes, in every interleaving of the two sessions.
C17_OtherEntryUntouched ==
    [][\A s \in Sessions :
        (reg[s].stage = "read" /\ reg'[s].stage # "read")
        => \A other \in Users \ {reg[s].user_id} :
              users[other] # NoUser => users'[other] = users[other]]_vars

\* C18: at the start of every page execution, after any sequence of login,
\* registration, logout, timeout and failed-login events, a session that
\* is logged in has one of the configured identities as user_type, and a
\* session that is not logged in has neither a user_type nor a
\* last_activity.
C18_SessionConsistent ==
    \A s \in Sessions :
        /\ ss[s].logged_in => ss[s].user_type \in Users
        /\ ~ss[s].logged_in => /\ ss[s].user_type = None
                               /\ ss[s].last_activity = NoTime

\* A session that was logged in as an identity has been logged out by the
\* timeout.
C18_Witness ==
    /\ ev.res = "timeout"
    /\ ev.u \in Users
    /\ ~ss[ev.s].logged_in
    /\ ss[ev.s].user_type = None
    /\ ss[ev.s].last_activity = NoTime

====
